---- MODULE Spec2Model ----
(***************************************************************************)
(* Statistics aggregation of circuits/eval_sae_as_classifier.py:           *)
(* initialize_results_dict, get_data_batch, aggregate_batch_statistics and *)
(* the driver aggregate_statistics.                                        *)
(*                                                                         *)
(* Tensors are functions over index tuples, indices 0-based as in the      *)
(* source.  Activations and thresholds are counted in tenths (0.3 is 3),   *)
(* so the grid torch.arange(0.0, 1.0, 0.1) is 0, 1, ..., 9.  A tensor that *)
(* the source updates in place lives in `heap` under an identifier, and    *)
(* the results dict holds identifiers, so that two dict entries sharing    *)
(* one tensor is a state the model can express.                            *)
(***************************************************************************)
EXTENDS Integers, Sequences, FiniteSets, TLC

\* Bounds of the model: games of a driver run (n_inputs, len(pgn_strings)),
\* games handed to aggregate_batch_statistics over a run of direct calls,
\* and the dictionary size.
MaxInputs == 3
MaxCallInputs == 3
MaxCallFeatures == 2
MaxFeatures == 3

Min(a, b) == IF a < b THEN a ELSE b

RECURSIVE SumOver(_, _)
\* val[0] + ... + val[n - 1] (the "sum" reduction of einops.reduce)
SumOver(n, val) == IF n = 0 THEN 0 ELSE val[n - 1] + SumOver(n - 1, val)

(***************************************************************************)
(* Inputs: attribute functions, their shapes, games.                       *)
(***************************************************************************)
\* custom_functions of the entry point
CustomFunctions == <<"board_to_piece_state", "board_to_pin_state">>

FunctionNames == {CustomFunctions[n] : n \in DOMAIN CustomFunctions}

\* chess_utils.config_lookup[name] and get_num_classes(config): the piece
\* state is a full 8 x 8 board, the pin state a single 1 x 1 cell.  The class
\* axis is kept short (3 and 2 classes).
Config(name) ==
    IF name = "board_to_piece_state"
    THEN [num_rows |-> 8, num_cols |-> 8, num_classes |-> 3]
    ELSE [num_rows |-> 1, num_cols |-> 1, num_classes |-> 2]

\* The update never mixes two cells of a board, so of the 8 x 8 board the
\* model follows the cells <<0, 0>> and <<7, 0>>.
Rows(name) == {r \in {0, 7} : r < Config(name).num_rows}
Cols(name) == {c \in {0} : c < Config(name).num_cols}
Cells(name) == Rows(name) \X Cols(name)
Classes(name) == 0 .. (Config(name).num_classes - 1)

\* A game string stands for the positions it plays; a position carries what
\* the collaborators compute from it: the class of every followed cell for
\* each attribute function (-1: no class set there) and, through `a`, the
\* activation of every feature.
GameA ==
    << [a |-> 0, piece |-> (<<0, 0>> :> 0 @@ <<7, 0>> :> 0), pin |-> 0],
       [a |-> 1, piece |-> (<<0, 0>> :> 0 @@ <<7, 0>> :> 0), pin |-> 0] >>
GameB ==
    << [a |-> 2, piece |-> (<<0, 0>> :> 2 @@ <<7, 0>> :> -1), pin |-> 1],
       [a |-> 4, piece |-> (<<0, 0>> :> 1 @@ <<7, 0>> :> 0), pin |-> 0] >>
Games == {GameA, GameB}

\* L, the context length shared by all games of a batch
SeqLen == Len(GameA)

ActCycle == <<3, 7, 5, 0, 12>>

\* The SAE activation of feature f at a position (collect_activations_batch).
Activation(position, f) == ActCycle[((position.a + f) % Len(ActCycle)) + 1]

\* The class the attribute function sets at cell <<r, c>> of a position.
BoardClass(name, position, r, c) ==
    IF name = "board_to_piece_state" THEN position.piece[<<r, c>>] ELSE position.pin

\* state_stack_to_one_hot: 1 at the class of the cell, 0 elsewhere.
OneHot(cls, k) == IF cls = k THEN 1 ELSE 0

\* boards_BLRRC of one attribute function for a list of games.
Boards(name, inputs_BL) ==
    [ix \in (0 .. Len(inputs_BL) - 1) \X (0 .. SeqLen - 1) \X Rows(name) \X Cols(name) \X Classes(name) |->
        OneHot(BoardClass(name, inputs_BL[ix[1] + 1][ix[2] + 1], ix[3], ix[4]), ix[5])]

\* collect_activations_batch(ae_bundle, inputs_BL, features): all_activations_FBL
CollectActivationsBatch(inputs_BL, num_features_) ==
    [ix \in (0 .. num_features_ - 1) \X (0 .. Len(inputs_BL) - 1) \X (0 .. SeqLen - 1) |->
        Activation(inputs_BL[ix[2] + 1][ix[3] + 1], ix[1])]

\* all_activations_FBL[f_start:f_end], indexed from 0 again
SliceFeatures(all_activations_FBL, f_start, f_end, B) ==
    [ix \in (0 .. f_end - f_start - 1) \X (0 .. B - 1) \X (0 .. SeqLen - 1) |->
        all_activations_FBL[<<ix[1] + f_start, ix[2], ix[3]>>]]

\* data[name][start:end] of a precomputed board tensor, indexed from 0 again
SliceRows(name, tensor, start, end) ==
    [ix \in (0 .. end - start - 1) \X (0 .. SeqLen - 1) \X Rows(name) \X Cols(name) \X Classes(name) |->
        tensor[[ix EXCEPT ![1] = @ + start]]]

\* get_data_batch: a full board is built from the games of the batch, a
\* 1 x 1 attribute is sliced from the tensor precomputed for all games.
GetDataBatch(data, inputs_BL, start, end, custom_functions) ==
    [name \in {custom_functions[n] : n \in DOMAIN custom_functions} |->
        IF Config(name).num_rows = 8
        THEN Boards(name, inputs_BL)
        ELSE SliceRows(name, data[name], start, end)]

\* the pickled dataset without "pgn_strings": one board tensor per attribute
\* function, precomputed over all games
PickledData(pgn) == [name \in FunctionNames |-> Boards(name, pgn)]

\* pgn_strings[start:end]
SliceGames(pgn, start, end) == SubSeq(pgn, start + 1, Min(end, Len(pgn)))

\* thresholds_T111 of the driver: torch.arange(0.0, 1.0, 0.1), in tenths
ThresholdGrid == [t \in 1 .. 10 |-> t - 1]

\* Threshold lists a direct caller of aggregate_batch_statistics passes.
ThresholdChoices == {<<5>>, <<7, 3>>}

(***************************************************************************)
(* initialize_results_dict                                                 *)
(***************************************************************************)
Zeros5(num_thresholds, num_features_, name) ==
    [ix \in (0 .. num_thresholds - 1) \X (0 .. num_features_ - 1)
            \X Rows(name) \X Cols(name) \X Classes(name) |-> 0]

Zeros2(num_thresholds, num_features_) ==
    [ix \in (0 .. num_thresholds - 1) \X (0 .. num_features_ - 1) |-> 0]

\* results[name] holds four tensors: "on" and "on_count" are fresh zeros,
\* "off" and "off_count" are clones, i.e. tensors of their own.
InitializeResultsDict(custom_functions, num_thresholds, num_features_) ==
    LET names == {custom_functions[n] : n \in DOMAIN custom_functions}
        ids == {<<name, key>> : name \in names, key \in {"on", "off", "on_count", "off_count"}}
    IN [results |-> [name \in names |->
                        [on |-> <<name, "on">>, off |-> <<name, "off">>,
                         on_count |-> <<name, "on_count">>, off_count |-> <<name, "off_count">>]],
        heap |-> [id \in ids |->
                    IF id[2] \in {"on", "off"}
                    THEN Zeros5(num_thresholds, num_features_, id[1])
                    ELSE Zeros2(num_thresholds, num_features_)]]

(***************************************************************************)
(* aggregate_batch_statistics                                              *)
(*                                                                         *)
(* A call is the record of its arguments:                                  *)
(*   activations_FBL, thresholds_T111, batch_data, f_start, f_end,         *)
(*   f_batch_size, and the sizes B, L of the batch.                        *)
(***************************************************************************)
PositionsOf(call) == (0 .. call.B - 1) \X (0 .. call.L - 1)

ThresholdIdx(call) == 0 .. Len(call.thresholds_T111) - 1

\* The comparison is turned around.
ActiveFlipped(call, t, f, b, l) ==
    call.activations_FBL[<<f, b, l>>] < call.thresholds_T111[t + 1]

\* A position whose activation equals the threshold counts as active.
ActiveGreaterEqual(call, t, f, b, l) ==
    call.activations_FBL[<<f, b, l>>] >= call.thresholds_T111[t + 1]

\* active_indices_TFBL = activations_FBL > thresholds_T111
Active(call, t, f, b, l) ==
    call.activations_FBL[<<f, b, l>>] > call.thresholds_T111[t + 1]

\* active_counts_TF = reduce(active_indices_TFBL, "T F B L -> T F", "sum")
ActiveCounts(call) ==
    [ix \in ThresholdIdx(call) \X (0 .. call.f_batch_size - 1) |->
        Cardinality({p \in PositionsOf(call) : Active(call, ix[1], ix[2], p[1], p[2])})]

\* off_counts_TF = reduce(~active_indices_TFBL, "T F B L -> T F", "sum")
OffCounts(call) ==
    [ix \in ThresholdIdx(call) \X (0 .. call.f_batch_size - 1) |->
        Cardinality({p \in PositionsOf(call) : ~Active(call, ix[1], ix[2], p[1], p[2])})]

\* The boards are summed without the mask of the active positions.
ActiveBoardsSumUnmasked(call, name) ==
    [ix \in ThresholdIdx(call) \X (0 .. call.f_batch_size - 1)
            \X Rows(name) \X Cols(name) \X Classes(name) |->
        SumOver(call.B * call.L,
                [p \in 0 .. call.B * call.L - 1 |->
                    call.batch_data[name][<<p \div call.L, p % call.L, ix[3], ix[4], ix[5]>>]])]

\* reduce(boards_TFBLRRC * active_indices_TFBL[..., None, None, None], sum over B L)
ActiveBoardsSum(call, name) ==
    [ix \in ThresholdIdx(call) \X (0 .. call.f_batch_size - 1)
            \X Rows(name) \X Cols(name) \X Classes(name) |->
        SumOver(call.B * call.L,
                [p \in 0 .. call.B * call.L - 1 |->
                    IF Active(call, ix[1], ix[2], p \div call.L, p % call.L)
                    THEN call.batch_data[name][<<p \div call.L, p % call.L, ix[3], ix[4], ix[5]>>]
                    ELSE 0])]

\* reduce(boards_TFBLRRC * ~active_indices_TFBL[..., None, None, None], sum over B L)
OffBoardsSum(call, name) ==
    [ix \in ThresholdIdx(call) \X (0 .. call.f_batch_size - 1)
            \X Rows(name) \X Cols(name) \X Classes(name) |->
        SumOver(call.B * call.L,
                [p \in 0 .. call.B * call.L - 1 |->
                    IF ~Active(call, ix[1], ix[2], p \div call.L, p % call.L)
                    THEN call.batch_data[name][<<p \div call.L, p % call.L, ix[3], ix[4], ix[5]>>]
                    ELSE 0])]

\* The slice is overwritten instead of added to.
AddSliceAssign(tensor, f_start, f_end, part) ==
    [ix \in DOMAIN tensor |->
        IF f_start <= ix[2] /\ ix[2] < f_end
        THEN part[[ix EXCEPT ![2] = @ - f_start]]
        ELSE tensor[ix]]

\* The sub-batch's offset is dropped: the sums go to the features from 0 on.
AddSliceNoOffset(tensor, f_start, f_end, part) ==
    [ix \in DOMAIN tensor |->
        IF ix[2] < f_end - f_start
        THEN tensor[ix] + part[ix]
        ELSE tensor[ix]]

\* tensor[:, f_start:f_end, ...] += part      (feature axis is the second)
AddSlice(tensor, f_start, f_end, part) ==
    [ix \in DOMAIN tensor |->
        IF f_start <= ix[2] /\ ix[2] < f_end
        THEN tensor[ix] + part[[ix EXCEPT ![2] = @ - f_start]]
        ELSE tensor[ix]]

\* The body of "for custom_function in custom_functions", on the heap hp.
UpdateTrackers(res, hp, call, name) ==
    LET h1 == [hp EXCEPT ![res[name].on] =
                  AddSlice(@, call.f_start, call.f_end, ActiveBoardsSum(call, name))]
        h2 == [h1 EXCEPT ![res[name].off] =
                  AddSlice(@, call.f_start, call.f_end, OffBoardsSum(call, name))]
        h3 == [h2 EXCEPT ![res[name].on_count] =
                  AddSlice(@, call.f_start, call.f_end, ActiveCounts(call))]
        h4 == [h3 EXCEPT ![res[name].off_count] =
                  AddSlice(@, call.f_start, call.f_end, OffCounts(call))]
    IN h4

RECURSIVE ForEachFunction(_, _, _, _, _)
ForEachFunction(res, hp, call, custom_functions, n) ==
    IF n > Len(custom_functions) THEN hp
    ELSE ForEachFunction(res, UpdateTrackers(res, hp, call, custom_functions[n]),
                         call, custom_functions, n + 1)

\* The heap after aggregate_batch_statistics(results, custom_functions, ...);
\* the dict it returns holds the same tensors as before.
AggregateBatchStatistics(res, hp, custom_functions, call) ==
    ForEachFunction(res, hp, call, custom_functions, 1)

\* The arguments of one call, for the games inputs_BL = pgn[start:end] and
\* the features [f_start, f_end).
MakeCall(pgn, start, end, thresholds_T111, num_features_, f_start, f_end) ==
    LET inputs_BL == SliceGames(pgn, start, end)
    IN [activations_FBL |->
            SliceFeatures(CollectActivationsBatch(inputs_BL, num_features_),
                          f_start, f_end, Len(inputs_BL)),
        thresholds_T111 |-> thresholds_T111,
        batch_data |-> GetDataBatch(PickledData(pgn), inputs_BL, start, end, CustomFunctions),
        f_start |-> f_start,
        f_end |-> f_end,
        f_batch_size |-> f_end - f_start,
        B |-> Len(inputs_BL),
        L |-> SeqLen,
        inputs_BL |-> inputs_BL]

NoCall == [inputs_BL |-> << >>, f_start |-> 0, f_end |-> 0, B |-> 0]


(***************************************************************************)
(* The loops of aggregate_statistics as functions of the run's inputs      *)
(***************************************************************************)
\* for feature in range(num_feature_iters): f_start, f_end of each sub-batch
FeatureRange(feature, feature_batch_size, num_features_) ==
    <<feature * feature_batch_size,
      Min((feature + 1) * feature_batch_size, num_features_)>>

\* num_feature_iters = num_features // feature_batch_size
NumFeatureIters(num_features_, feature_batch_size) ==
    num_features_ \div feature_batch_size

\* n_iters = n_inputs // batch_size
NIters(n_inputs_, batch_size_) == n_inputs_ \div batch_size_

\* feature_batch_size = batch_size
FeatureBatchSize(batch_size_) == batch_size_

RECURSIVE InnerLoop(_, _, _, _, _, _, _)
\* the heap after the sub-batches feature, feature + 1, ... of input batch it
InnerLoop(res, hp, pgn, batch_size_, num_features_, it, feature) ==
    IF feature >= NumFeatureIters(num_features_, FeatureBatchSize(batch_size_)) THEN hp
    ELSE LET fr == FeatureRange(feature, FeatureBatchSize(batch_size_), num_features_)
             c == MakeCall(pgn, it * batch_size_, (it + 1) * batch_size_,
                           ThresholdGrid, num_features_, fr[1], fr[2])
         IN InnerLoop(res, AggregateBatchStatistics(res, hp, CustomFunctions, c),
                      pgn, batch_size_, num_features_, it, feature + 1)

RECURSIVE OuterLoop(_, _, _, _, _, _, _)
\* the heap after the input batches it, it + 1, ...
OuterLoop(res, hp, pgn, n_inputs_, batch_size_, num_features_, it) ==
    IF it >= NIters(n_inputs_, batch_size_) THEN hp
    ELSE OuterLoop(res, InnerLoop(res, hp, pgn, batch_size_, num_features_, it, 0),
                   pgn, n_inputs_, batch_size_, num_features_, it + 1)

\* the accumulators a whole run ends with
RunLoops(pgn, n_inputs_, batch_size_, num_features_) ==
    LET r == InitializeResultsDict(CustomFunctions, Len(ThresholdGrid), num_features_)
    IN OuterLoop(r.results, r.heap, pgn, n_inputs_, batch_size_, num_features_, 0)

\* The call of line 169 and the signature of line 21.
InitCallArguments == <<"custom_functions", "len(thresholds_T111)">>
InitParameters == <<"custom_functions", "num_thresholds", "num_features">>

(***************************************************************************)
(* State                                                                   *)
(***************************************************************************)
VARIABLES
    results,        \* the results dict: name -> key -> tensor identifier
    heap,           \* tensor identifier -> tensor
    thresholds,     \* thresholds_T111
    num_features,   \* total number of features (ae_bundle.dictionary_size)
    prev,           \* the heap before the last aggregate_batch_statistics call
    last_call,      \* games and feature range of the last call (NoCall before the first)
    dense,          \* name -> every position processed so far had a class at every cell
    consumed,       \* number of games handed to aggregate_batch_statistics so far
    entry,          \* where the behaviour starts
    pc,             \* position of the driver
    err,            \* the exception that ended the run, "none" while there is none
    pgn_strings,    \* data["pgn_strings"]
    n_inputs,
    batch_size,
    i,              \* outer loop index
    feature,        \* inner loop index
    hits,           \* feature index -> times accumulated for the current input batch
    writes          \* number of times results.pkl was written

vars == <<results, heap, thresholds, num_features, prev, last_call, dense, consumed,
          entry, pc, err, pgn_strings, n_inputs, batch_size, i, feature, hits, writes>>

driverVars == <<entry, pc, err, pgn_strings, n_inputs, batch_size, i, feature, hits, writes>>
ghostVars == <<prev, last_call, dense, consumed>>

\* reading a tensor of the results dict
Tensor(name, key) == heap[results[name][key]]
PrevTensor(name, key) == prev[results[name][key]]

\* the full arguments of the last call
LastCall ==
    MakeCall(last_call.inputs_BL, 0, Len(last_call.inputs_BL), thresholds, num_features,
             last_call.f_start, last_call.f_end)

IsDense(name, inputs_BL) ==
    \A b \in DOMAIN inputs_BL : \A l \in 1 .. SeqLen : \A cell \in Cells(name) :
        BoardClass(name, inputs_BL[b][l], cell[1], cell[2]) \in Classes(name)

RECURSIVE GameLists(_)
\* lists of games of length n
GameLists(n) ==
    IF n = 0 THEN {<< >>}
    ELSE {Append(s, g) : s \in GameLists(n - 1), g \in Games}

GameListsUpTo(n) == UNION {GameLists(k) : k \in 0 .. n}

(***************************************************************************)
(* SpecBatch: aggregate_batch_statistics called directly, on the           *)
(* accumulators initialize_results_dict returns, with any batch of games   *)
(* and any feature range inside [0, num_features).                         *)
(***************************************************************************)
InitBatch ==
    /\ thresholds \in ThresholdChoices
    /\ num_features \in 1 .. MaxCallFeatures
    /\ LET r == InitializeResultsDict(CustomFunctions, Len(thresholds), num_features)
       IN /\ results = r.results
          /\ heap = r.heap
          /\ prev = r.heap
    /\ last_call = NoCall
    /\ dense = [name \in FunctionNames |-> TRUE]
    /\ consumed = 0
    /\ entry = "aggregate_batch_statistics"
    /\ pc = "call"
    /\ err = "none"
    /\ pgn_strings = << >>
    /\ n_inputs = 0
    /\ batch_size = 1
    /\ i = 0
    /\ feature = 0
    /\ hits = << >>
    /\ writes = 0

AggregateBatch ==
    /\ pc = "call"
    /\ \E B \in 1 .. (MaxCallInputs - consumed) :
       \E inputs_BL \in GameLists(B) :
       \E f_start \in 0 .. num_features - 1 :
       \E f_end \in f_start + 1 .. num_features :
          /\ last_call' = [inputs_BL |-> inputs_BL, f_start |-> f_start, f_end |-> f_end, B |-> B]
          /\ prev' = heap
          /\ heap' = AggregateBatchStatistics(results, heap, CustomFunctions,
                        MakeCall(inputs_BL, 0, B, thresholds, num_features, f_start, f_end))
          /\ dense' = [name \in FunctionNames |-> dense[name] /\ IsDense(name, inputs_BL)]
          /\ consumed' = consumed + B
    /\ UNCHANGED <<results, thresholds, num_features>>
    /\ UNCHANGED driverVars

NextBatch == AggregateBatch

SpecBatch == InitBatch /\ [][NextBatch]_vars

(***************************************************************************)
(* SpecDriver: aggregate_statistics.  A behaviour starts either at the     *)
(* function's first line (entry "aggregate_statistics"), or at the loop of *)
(* line 171 (entry "loop") with the accumulators that                      *)
(* initialize_results_dict returns when it is given its three parameters   *)
(* and with inputs that passed the assertions of lines 159-160.            *)
(***************************************************************************)
NoAccumulators ==
    /\ results = << >>
    /\ heap = << >>
    /\ prev = << >>
    /\ last_call = NoCall
    /\ dense = << >>
    /\ consumed = 0

InitRun ==
    /\ entry = "aggregate_statistics"
    /\ pc = "load"
    /\ err = "none"
    /\ pgn_strings \in GameListsUpTo(MaxInputs)
    /\ n_inputs \in 0 .. MaxInputs
    /\ batch_size \in 1 .. MaxInputs
    /\ num_features \in 1 .. MaxFeatures
    /\ thresholds = << >>
    /\ NoAccumulators
    /\ i = 0
    /\ feature = 0
    /\ hits = << >>
    /\ writes = 0

InitLoop ==
    /\ entry = "loop"
    /\ pc = "outer"
    /\ err = "none"
    /\ pgn_strings \in GameListsUpTo(MaxInputs)
    /\ n_inputs \in 0 .. MaxInputs
    /\ batch_size \in 1 .. MaxInputs
    /\ Len(pgn_strings) >= n_inputs
    /\ n_inputs % batch_size = 0
    /\ num_features \in 1 .. MaxFeatures
    /\ thresholds = ThresholdGrid
    /\ LET r == InitializeResultsDict(CustomFunctions, Len(thresholds), num_features)
       IN /\ results = r.results
          /\ heap = r.heap
    /\ prev = << >>
    /\ last_call = NoCall
    /\ dense = << >>
    /\ consumed = 0
    /\ i = 0
    /\ feature = 0
    /\ hits = [f \in 0 .. num_features - 1 |-> 0]
    /\ writes = 0

InitDriver == InitRun \/ InitLoop

Abort(exception) ==
    /\ pc' = "error"
    /\ err' = exception

\* lines 142-151: open(data_path), pickle.load, data["pgn_strings"]
LoadData ==
    /\ pc = "load"
    /\ pc' = "bundle"
    /\ UNCHANGED <<results, heap, thresholds, num_features, ghostVars,
                   entry, err, pgn_strings, n_inputs, batch_size, i, feature, hits, writes>>

\* the dataset is unreadable or malformed
LoadDataFails ==
    /\ pc = "load"
    /\ Abort("load")
    /\ UNCHANGED <<results, heap, thresholds, num_features, ghostVars,
                   entry, pgn_strings, n_inputs, batch_size, i, feature, hits, writes>>

\* lines 153-157: get_ae_bundle, features, num_features
GetAeBundle ==
    /\ pc = "bundle"
    /\ pc' = "assert"
    /\ UNCHANGED <<results, heap, thresholds, num_features, ghostVars,
                   entry, err, pgn_strings, n_inputs, batch_size, i, feature, hits, writes>>

\* Only the first assertion is made.
CheckPreconditionsFirstOnly ==
    /\ pc = "assert"
    /\ IF Len(pgn_strings) >= n_inputs
       THEN /\ pc' = "init"
            /\ err' = err
            /\ thresholds' = ThresholdGrid
       ELSE /\ Abort("AssertionError")
            /\ thresholds' = thresholds
    /\ UNCHANGED <<results, heap, num_features, ghostVars,
                   entry, pgn_strings, n_inputs, batch_size, i, feature, hits, writes>>

\* lines 159-167: the two assertions, then n_iters, num_feature_iters and
\* the threshold grid
CheckPreconditions ==
    /\ pc = "assert"
    /\ IF Len(pgn_strings) >= n_inputs /\ n_inputs % batch_size = 0
       THEN /\ pc' = "init"
            /\ err' = err
            /\ thresholds' = ThresholdGrid
       ELSE /\ Abort("AssertionError")
            /\ thresholds' = thresholds
    /\ UNCHANGED <<results, heap, num_features, ghostVars,
                   entry, pgn_strings, n_inputs, batch_size, i, feature, hits, writes>>

\* line 169: initialize_results_dict(custom_functions, len(thresholds_T111));
\* a call whose arguments do not fill the parameters raises TypeError
\* before the function's body runs.
InitializeResults ==
    /\ pc = "init"
    /\ IF Len(InitCallArguments) = Len(InitParameters)
       THEN LET r == InitializeResultsDict(CustomFunctions, Len(thresholds), num_features)
            IN /\ results' = r.results
               /\ heap' = r.heap
               /\ hits' = [f \in 0 .. num_features - 1 |-> 0]
               /\ pc' = "outer"
               /\ err' = err
       ELSE /\ Abort("TypeError")
            /\ UNCHANGED <<results, heap, hits>>
    /\ UNCHANGED <<thresholds, num_features, ghostVars,
                   entry, pgn_strings, n_inputs, batch_size, i, feature, writes>>

\* lines 171-180: the next input batch: its games, board tensors and the
\* activations of all features.  These are functions of pgn_strings and i,
\* so the state keeps i and the sub-batch steps rebuild them (MakeCall).
FetchBatch ==
    /\ pc = "outer"
    /\ i < NIters(n_inputs, batch_size)
    /\ pc' = "inner"
    /\ feature' = 0
    /\ hits' = [f \in 0 .. num_features - 1 |-> 0]
    /\ UNCHANGED <<results, heap, thresholds, num_features, ghostVars,
                   entry, err, pgn_strings, n_inputs, batch_size, i, writes>>

\* get_data_batch or collect_activations_batch raises
FetchBatchFails ==
    /\ pc = "outer"
    /\ i < NIters(n_inputs, batch_size)
    /\ Abort("fetch")
    /\ UNCHANGED <<results, heap, thresholds, num_features, ghostVars,
                   entry, pgn_strings, n_inputs, batch_size, i, feature, hits, writes>>

\* lines 183-203: one feature sub-batch
AccumulateFeatureBatch ==
    /\ pc = "inner"
    /\ feature < NumFeatureIters(num_features, FeatureBatchSize(batch_size))
    /\ LET fr == FeatureRange(feature, FeatureBatchSize(batch_size), num_features)
           c == MakeCall(pgn_strings, i * batch_size, (i + 1) * batch_size,
                         thresholds, num_features, fr[1], fr[2])
       IN /\ heap' = AggregateBatchStatistics(results, heap, CustomFunctions, c)
          /\ hits' = [f \in DOMAIN hits |->
                        IF fr[1] <= f /\ f < fr[2] THEN hits[f] + 1 ELSE hits[f]]
    /\ feature' = feature + 1
    /\ UNCHANGED <<results, thresholds, num_features, ghostVars,
                   entry, pc, err, pgn_strings, n_inputs, batch_size, i, writes>>

\* aggregate_batch_statistics raises (out of memory, a shape mismatch)
AccumulateFails ==
    /\ pc = "inner"
    /\ feature < NumFeatureIters(num_features, FeatureBatchSize(batch_size))
    /\ Abort("accumulate")
    /\ UNCHANGED <<results, heap, thresholds, num_features, ghostVars,
                   entry, pgn_strings, n_inputs, batch_size, i, feature, hits, writes>>

\* the inner loop is exhausted: back to line 171
NextInputBatch ==
    /\ pc = "inner"
    /\ feature >= NumFeatureIters(num_features, FeatureBatchSize(batch_size))
    /\ pc' = "outer"
    /\ i' = i + 1
    /\ UNCHANGED <<results, heap, thresholds, num_features, ghostVars,
                   entry, err, pgn_strings, n_inputs, batch_size, feature, hits, writes>>

\* lines 205-206: pickle.dump(results) once the outer loop is exhausted
DumpResults ==
    /\ pc = "outer"
    /\ i >= NIters(n_inputs, batch_size)
    /\ pc' = "done"
    /\ writes' = writes + 1
    /\ UNCHANGED <<results, heap, thresholds, num_features, ghostVars,
                   entry, err, pgn_strings, n_inputs, batch_size, i, feature, hits>>

NextDriver ==
    \/ LoadData
    \/ LoadDataFails
    \/ GetAeBundle
    \/ CheckPreconditions
    \/ InitializeResults
    \/ FetchBatch
    \/ FetchBatchFails
    \/ AccumulateFeatureBatch
    \/ AccumulateFails
    \/ NextInputBatch
    \/ DumpResults

SpecDriver == InitDriver /\ [][NextDriver]_vars

(***************************************************************************)
(* Properties of aggregate_batch_statistics (SpecBatch)                    *)
(***************************************************************************)
ThIdx == 0 .. Len(thresholds) - 1
Features == 0 .. num_features - 1

\* sum over the class axis of tensor[t, f, r, c, :]
ClassSum(name, tensor, t, f, cell) ==
    SumOver(Config(name).num_classes,
            [k \in Classes(name) |-> tensor[<<t, f, cell[1], cell[2], k>>]])

\* C2 (sum conservation): for every attribute function, threshold t, feature
\* f and cell, the sum of on[t,f,r,c,:] over the classes equals on_count[t,f]
\* when every processed position had exactly one class set at every cell,
\* and is at most on_count[t,f] otherwise.
C2_SumConservation ==
    \A name \in FunctionNames : \A t \in ThIdx : \A f \in Features : \A cell \in Cells(name) :
        LET sum == ClassSum(name, Tensor(name, "on"), t, f, cell)
            count == Tensor(name, "on_count")[<<t, f>>]
        IN IF dense[name] THEN sum = count ELSE sum <= count

\* a dense and a sparse attribute function side by side, the sparse one
\* with a cell whose class sum stays below a positive on_count
C2_Witness ==
    /\ consumed > 0
    /\ dense["board_to_pin_state"]
    /\ ~dense["board_to_piece_state"]
    /\ \E t \in ThIdx : \E f \in Features :
          /\ Tensor("board_to_pin_state", "on_count")[<<t, f>>] > 0
          /\ \E cell \in Cells("board_to_piece_state") :
                ClassSum("board_to_piece_state", Tensor("board_to_piece_state", "on"), t, f, cell)
                    < Tensor("board_to_piece_state", "on_count")[<<t, f>>]

\* C5 (threshold monotonicity): for every attribute function, feature f and
\* thresholds t1 < t2 (by value), on_count[t1,f] >= on_count[t2,f].
C5_ThresholdMonotonicity ==
    \A name \in FunctionNames : \A f \in Features : \A t1 \in ThIdx : \A t2 \in ThIdx :
        thresholds[t1 + 1] < thresholds[t2 + 1] =>
            Tensor(name, "on_count")[<<t1, f>>] >= Tensor(name, "on_count")[<<t2, f>>]

\* two thresholds that separate the processed activations
C5_Witness ==
    \E name \in FunctionNames : \E f \in Features : \E t1 \in ThIdx : \E t2 \in ThIdx :
        /\ thresholds[t1 + 1] < thresholds[t2 + 1]
        /\ Tensor(name, "on_count")[<<t1, f>>] > Tensor(name, "on_count")[<<t2, f>>]
        /\ Tensor(name, "on_count")[<<t2, f>>] > 0

\* the last call was made on the zero accumulators
FirstCall ==
    /\ last_call.B > 0
    /\ prev = InitializeResultsDict(CustomFunctions, Len(thresholds), num_features).heap

PositionsOfLastCall == (1 .. last_call.B) \X (1 .. SeqLen)

\* positions of the last call at which feature f is strictly above threshold t
PositionsOn(t, f) ==
    {p \in PositionsOfLastCall :
        Activation(last_call.inputs_BL[p[1]][p[2]], f) > thresholds[t + 1]}

\* positions of the last call at which feature f is at or below threshold t
PositionsOff(t, f) ==
    {p \in PositionsOfLastCall :
        Activation(last_call.inputs_BL[p[1]][p[2]], f) <= thresholds[t + 1]}

WithClass(name, positions, cell, k) ==
    {p \in positions :
        BoardClass(name, last_call.inputs_BL[p[1]][p[2]], cell[1], cell[2]) = k}

\* C6 (one call on zero accumulators): on[t,f,r,c,k] is the sum of
\* board[b,l,r,c,k] over the positions whose activation is strictly greater
\* than threshold t, off the sum over the other positions (equality counts
\* as off), on_count and off_count the numbers of those positions; with
\* thresholds [0.5], one feature and the activations [0.3, 0.7] on a board
\* that is 1 at class 0: on_count = off_count = 1, on[0,0,:,:,0] is the
\* board of the second position and off[0,0,:,:,0] that of the first.
C6_SingleCall ==
    FirstCall =>
        /\ \A name \in FunctionNames : \A t \in ThIdx :
           \A f \in last_call.f_start .. last_call.f_end - 1 :
              /\ Tensor(name, "on_count")[<<t, f>>] = Cardinality(PositionsOn(t, f))
              /\ Tensor(name, "off_count")[<<t, f>>] = Cardinality(PositionsOff(t, f))
              /\ \A cell \in Cells(name) : \A k \in Classes(name) :
                    /\ Tensor(name, "on")[<<t, f, cell[1], cell[2], k>>]
                          = Cardinality(WithClass(name, PositionsOn(t, f), cell, k))
                    /\ Tensor(name, "off")[<<t, f, cell[1], cell[2], k>>]
                          = Cardinality(WithClass(name, PositionsOff(t, f), cell, k))
        /\ (thresholds = <<5>> /\ num_features = 1 /\ last_call.inputs_BL = <<GameA>>) =>
              \A name \in FunctionNames :
                 /\ Tensor(name, "on_count") = (<<0, 0>> :> 1)
                 /\ Tensor(name, "off_count") = (<<0, 0>> :> 1)
                 /\ \A cell \in Cells(name) :
                       /\ Tensor(name, "on")[<<0, 0, cell[1], cell[2], 0>>]
                             = OneHot(BoardClass(name, GameA[2], cell[1], cell[2]), 0)
                       /\ Tensor(name, "off")[<<0, 0, cell[1], cell[2], 0>>]
                             = OneHot(BoardClass(name, GameA[1], cell[1], cell[2]), 0)

\* the scenario: threshold 0.5, one feature, activations 0.3 and 0.7
C6_Witness ==
    /\ FirstCall
    /\ thresholds = <<5>>
    /\ num_features = 1
    /\ last_call.inputs_BL = <<GameA>>
    /\ Activation(GameA[1], 0) = 3
    /\ Activation(GameA[2], 0) = 7
    /\ Tensor("board_to_piece_state", "on")[<<0, 0, 7, 0, 0>>] = 1
    /\ Tensor("board_to_piece_state", "off")[<<0, 0, 7, 0, 0>>] = 1

\* one call with the games `part` of the last call's batch, on the heap hp
AggregatePart(hp, part) ==
    AggregateBatchStatistics(results, hp, CustomFunctions,
        MakeCall(part, 0, Len(part), thresholds, num_features,
                 last_call.f_start, last_call.f_end))

\* C3 (partition invariance, order independence): splitting the batch of a
\* call into two sub-batches and accumulating them one after the other, in
\* either order, from the accumulators the call started from, gives the
\* accumulators the call gave.
C3_PartitionInvariance ==
    last_call.B >= 2 =>
        \A s \in 1 .. last_call.B - 1 :
            LET first == SubSeq(last_call.inputs_BL, 1, s)
                second == SubSeq(last_call.inputs_BL, s + 1, last_call.B)
            IN /\ AggregatePart(AggregatePart(prev, first), second) = heap
               /\ AggregatePart(AggregatePart(prev, second), first) = heap

\* a call of two different games on accumulators that already hold counts
C3_Witness ==
    /\ last_call.B >= 2
    /\ consumed > last_call.B
    /\ \E b1 \in 1 .. last_call.B : \E b2 \in 1 .. last_call.B :
          last_call.inputs_BL[b1] # last_call.inputs_BL[b2]
    /\ \E name \in FunctionNames : \E t \in ThIdx :
          PrevTensor(name, "on_count")[<<t, last_call.f_start>>] > 0

TensorIds == {results[name][key] : name \in FunctionNames,
                                   key \in {"on", "off", "on_count", "off_count"}}

InRange(ix) == last_call.f_start <= ix[2] /\ ix[2] < last_call.f_end

Shifted(ix) == [ix EXCEPT ![2] = @ - last_call.f_start]

\* the entries of a tensor in the call's feature range grew by `part`, the
\* others kept their value
GrewBy(name, key, part) ==
    \A ix \in DOMAIN Tensor(name, key) :
        Tensor(name, key)[ix] =
            IF InRange(ix) THEN PrevTensor(name, key)[ix] + part[Shifted(ix)]
            ELSE PrevTensor(name, key)[ix]

\* C10 (frame of one call): a call with feature range [f_start, f_end)
\* changes only the entries of on, off, on_count, off_count whose feature
\* index is in the range, by adding the call's partial sums and counts; all
\* other entries keep their value, and the four tensors of every attribute
\* function are tensors of their own.
C10_Frame ==
    /\ Cardinality(TensorIds) = 4 * Cardinality(FunctionNames)
    /\ last_call.B > 0 =>
          \A name \in FunctionNames :
             /\ GrewBy(name, "on", ActiveBoardsSum(LastCall, name))
             /\ GrewBy(name, "off", OffBoardsSum(LastCall, name))
             /\ GrewBy(name, "on_count", ActiveCounts(LastCall))
             /\ GrewBy(name, "off_count", OffCounts(LastCall))

\* a call on the features from 1 on, after feature 0 was accumulated
C10_Witness ==
    /\ last_call.B > 0
    /\ last_call.f_start > 0
    /\ \E name \in FunctionNames : \E t \in ThIdx :
          /\ PrevTensor(name, "on_count")[<<t, 0>>] > 0
          /\ Tensor(name, "on_count")[<<t, 0>>] = PrevTensor(name, "on_count")[<<t, 0>>]
          /\ Tensor(name, "on_count")[<<t, last_call.f_start>>]
                > PrevTensor(name, "on_count")[<<t, last_call.f_start>>]

(***************************************************************************)
(* Properties of aggregate_statistics (SpecDriver)                         *)
(***************************************************************************)
\* the loops, step by step, end with what they compute as functions
LoopsAgree ==
    (entry = "loop" /\ pc = "done") =>
        heap = RunLoops(pgn_strings, n_inputs, batch_size, num_features)

PreconditionsHold ==
    /\ Len(pgn_strings) >= n_inputs
    /\ n_inputs % batch_size = 0

C8_RunCompletion ==
    (entry = "aggregate_statistics" /\ PreconditionsHold /\ pc = "error") =>
        err = "load"

\* C7 (no partial persistence): a run that ended in an error wrote no
\* results file; the file is written once, only when the outer loop is
\* exhausted; a violated precondition ends the run with an AssertionError
\* before any accumulator exists and before any input batch is fetched.
C7_NoPartialPersistence ==
    /\ pc = "error" => writes = 0
    /\ writes > 0 =>
          /\ writes = 1
          /\ pc = "done"
          /\ err = "none"
          /\ i >= NIters(n_inputs, batch_size)
    /\ (~PreconditionsHold /\ pc \notin {"load", "bundle", "assert"} /\ err # "load") =>
          /\ pc = "error"
          /\ err = "AssertionError"
          /\ heap = << >>
          /\ i = 0

\* n_inputs is not a multiple of batch_size: the run stopped at the assertion
C7_Witness ==
    /\ entry = "aggregate_statistics"
    /\ Len(pgn_strings) >= n_inputs
    /\ n_inputs % batch_size # 0
    /\ pc = "error"
    /\ err = "AssertionError"
    /\ writes = 0

====
